---- MODULE Spec2Model ----
(***************************************************************************)
(* The sampler audio worklet (SamplerProcessor with its JavaScript         *)
(* "rustProcessor") and the message port between the controller (main.js,  *)
(* context.js) and the worklet.                                            *)
(*                                                                         *)
(* Positions are rationals: playbackPosition holds the numerator of the    *)
(* position over the denominator DeviceRate, so that one output sample     *)
(* advances it by this.sampleRate (position += this.sampleRate/sampleRate).*)
(* Times are rationals over TimeDen.                                       *)
(*                                                                         *)
(* The specifications share the state: Spec is the worklet and its port,   *)
(* SpecFault the worklet with exceptions raised inside its try blocks,     *)
(* SpecPlay the worklet under fair scheduling of its render callback,      *)
(* SpecVideo the video decoder manager (frame buffer, hidden video         *)
(* element) with the audio/video sync module, SpecRender the capture loop  *)
(* with renderFrameForTime, SpecRenderer the same with the render loop of  *)
(* renderer.js, SpecCapture the decoder's capture loops, SpecSync the      *)
(* periodic sync timer, SpecTransport the transport controls as main.js    *)
(* sets them up, SpecLoop the transport controls under any caller, SpecApp *)
(* the handlers of main.js together with the worklet they post to and the  *)
(* video decoder they synchronize, and SpecKeys the same with the keyboard *)
(* shortcuts of keyboard.js.                                               *)
(***************************************************************************)
EXTENDS Integers, Sequences, FiniteSets, TLC

\* ----------------------------------------------------------------- bounds
\* samples per render block (the render quantum)
BlockSize == 2
\* longest sample buffer a loadSample command carries
MaxLen == 2
\* the device sample rate (the worklet global sampleRate), scaled down
DeviceRate == 2
\* denominator of the times carried by seek and setLoopPoints
TimeDen == 2
\* commands in flight on the port
MaxQueue == 2
\* commands the controller posts after init
MaxCmds == 3

\* frames the video decoder keeps (this.maxBufferSize, 30 in the source)
maxBufferSize == 2
\* frames the capture loop produces
MaxFrames == 4
\* latest time (numerator over TimeDen) of the audio clock and of a query
MaxTime == 3
\* config.maxTimeDifference (numerator over TimeDen; 0.1 s in the source)
DefaultMaxTimeDifference == 1
\* largest value of a loop slider (0..100 in the page, scaled down)
MaxSlider == 4
\* longest duration (whole seconds) the total-time display shows
MaxShown == 2
\* capture loops that may run at once before startDecoding is called no more
MaxLoops == 2
\* intervals setInterval hands out before startContinuousSync is called no more
MaxTimers == 3
\* length of the audio file the page loads, in render blocks
FileBlocks == 3
\* microseconds per second, the scale of frame timestamps
MicrosPerSecond == 1000000

\* sample rates a loadSample command carries (0: a non-positive rate)
Rates == {0, 2, 3}
\* times (numerators over TimeDen) a seek carries: negative, inside, beyond
SeekTimes == {-1, 1, 8}
\* loop regions <<start, end>> (numerators over TimeDen) a setLoopPoints carries
LoopRegions == { <<0, 1>> }

\* ------------------------------------------------------------------ state
VARIABLES
    initialized,       \* this.initialized
    rustProcessor,     \* this.rustProcessor: "null" or "object"
    sampleBuffer,      \* this.sampleBuffer: <<>> for null, <<data>> for a Float32Array
    sampleRate,        \* this.sampleRate
    isPlaying,         \* this.isPlaying
    playbackPosition,  \* this.playbackPosition, numerator over DeviceRate
    loopPoints,        \* the arguments of the last setLoopPoints the worklet logged
    outputs,           \* outputs[0]: the two channels of the last rendered block
    stoppedAt,         \* first index of the last block at which the end-of-sample branch ran (0: none)
    port,              \* commands posted by the controller, not yet handled
    portOut,           \* events the worklet posted during its last step
    initPosted,        \* the controller has posted 'init'
    nextSeq,           \* serial number of the next command the controller posts
    handled,           \* serial numbers of the commands whose handler ran, in order
    discarded,         \* serial numbers of the commands a handler returned from unprocessed
    lastOp,            \* the last step taken, its command and the state it started from
    keepAlive,         \* <<what process() returned>>, when it was the last step (<<>>: it was not)
    failedAt           \* frame at which the try block of that process() threw (0: it did not)

VARIABLES
    hasElement,        \* the decoder manager exists and holds its video element
    frameBuffer,       \* this.frameBuffer: frames [id, timestamp], oldest first
    isDecoding,        \* this.isDecoding
    currentTime,       \* this.currentTime of the decoder (numerator over TimeDen)
    duration,          \* this.duration
    videoTime,         \* videoElement.currentTime
    closeCount,        \* calls of close() on each frame, by frame id
    nextFrameId,       \* id of the next frame the capture loop creates
    maxTimeDifference, \* config.maxTimeDifference of the sync module
    vLast,             \* the last video step, its argument, result and the state it started from
    lastRenderedFrameTime \* lastRenderedFrameTime of the sync module

videoVars == <<hasElement, frameBuffer, isDecoding, currentTime, duration, videoTime,
               closeCount, nextFrameId, maxTimeDifference, vLast>>

renderVars == <<lastRenderedFrameTime>>

VARIABLES
    loopStartValue,    \* loopStartSlider.value
    loopEndValue,      \* loopEndSlider.value
    loopEnabled,       \* loopEnabledCheckbox.checked
    onLoopChange,      \* TRUE when setupTransportControls was given a loopCallback
    totalTimeText,     \* the whole seconds totalTimeDisplay.textContent shows
    uiLast             \* the last step of the transport controls, what it reported
                       \* and the duration last shown (numerator over TimeDen)

transportVars == <<loopStartValue, loopEndValue, loopEnabled, onLoopChange,
                   totalTimeText, uiLast>>

VARIABLES
    audioBuffer,       \* main.js: TRUE once an audio file was decoded
    mainIsPlaying,     \* main.js: isPlaying
    mainCurrentTime,   \* main.js: currentTime, numerator over TimeDen
    totalDuration,     \* main.js: totalDuration, numerator over TimeDen
    animationFrameId,  \* main.js: TRUE while an updateUI callback is requested
    sinceLastTime,     \* audioContext.currentTime - lastTime, numerator over TimeDen
    mainVideoDecoder,  \* main.js: TRUE once videoDecoder was created
    mainLast           \* the last handler of main.js that ran and its argument

mainVars == <<audioBuffer, mainIsPlaying, mainCurrentTime, totalDuration,
              animationFrameId, sinceLastTime, mainVideoDecoder, mainLast>>

uiVars == <<transportVars, mainVars>>

VARIABLES
    captureLoops,      \* captureFrame callbacks requested for the next animation frame
    captureLast,       \* the last step of the capture loops and the frames it pushed
    lastFrame,         \* renderer.js: lastFrame of setupVideoRenderer (NullFrame: null)
    rendered,          \* the frame last passed to renderer.render, and whether it was closed
    syncIntervalId,    \* sync.js: syncIntervalId (0: null)
    activeTimers,      \* ids of the intervals set and not cleared
    nextTimerId,       \* the id the next setInterval returns
    keyStates,         \* keyboard.js: the keys keyStates marks as down
    keyLast,           \* the last keyboard event and the transport handler it called
    playBtnDisabled,   \* playBtn.disabled
    pauseBtnDisabled,  \* pauseBtn.disabled
    stopBtnDisabled    \* stopBtn.disabled

captureVars == <<captureLoops, captureLast>>
rendererVars == <<lastFrame, rendered>>
timerVars == <<syncIntervalId, activeTimers, nextTimerId>>
keyVars == <<keyStates, keyLast>>
buttonVars == <<playBtnDisabled, pauseBtnDisabled, stopBtnDisabled>>

auxVars == <<captureVars, rendererVars, timerVars, keyVars, buttonVars>>

vars == <<initialized, rustProcessor, sampleBuffer, sampleRate, isPlaying,
          playbackPosition, loopPoints, outputs, stoppedAt, port, portOut,
          initPosted, nextSeq, handled, discarded, lastOp, keepAlive, failedAt,
          videoVars, renderVars, uiVars, auxVars>>

engineVars == <<initialized, rustProcessor, sampleBuffer, sampleRate, isPlaying,
                playbackPosition, loopPoints, outputs, stoppedAt, portOut,
                handled, discarded, lastOp, keepAlive, failedAt>>

workletVars == <<engineVars, port, initPosted, nextSeq>>

\* ---------------------------------------------------------------- helpers
Max(a, b) == IF a >= b THEN a ELSE b
Min(a, b) == IF a <= b THEN a ELSE b

\* Math.floor of a position
Floor(p) == p \div DeviceRate

\* a Float32Array of length n; its samples are distinct and non-zero
SampleData(n) == [i \in 1..n |-> i]

HasBuffer == sampleBuffer # <<>>
Buffer == sampleBuffer[1]
BufferLength == Len(Buffer)

Silence == [i \in 1..BlockSize |-> 0]
SilentOutputs == <<Silence, Silence>>

\* the transport is Playing: initialised, a sample loaded, isPlaying set
Playing == initialized /\ rustProcessor = "object" /\ HasBuffer /\ isPlaying

NoCmd == [type |-> "none", seq |-> 0]

Op(name, cmd) ==
    [op |-> name, cmd |-> cmd, playing |-> Playing,
     isPlaying |-> isPlaying, position |-> playbackPosition]

\* ------------------------------------------------------------- controller
\* initWasmModule: the first message on the port
PostInit ==
    /\ ~initPosted
    /\ initPosted' = TRUE
    /\ port' = Append(port, [type |-> "init", seq |-> nextSeq])
    /\ nextSeq' = nextSeq + 1
    /\ UNCHANGED <<engineVars, videoVars, renderVars, uiVars, auxVars>>

\* effect parameters the effects panel sends, values in hundredths: a delay
\* feedback beyond its range and a delay mix inside it
EffectSettings == { <<"delay", "feedback", 150>>, <<"delay", "mix", 50>> }

Commands ==
         { [type |-> "loadSample", length |-> n, sampleRate |-> r] : n \in 0..MaxLen, r \in Rates }
    \cup { [type |-> "setPlaybackState", isPlaying |-> TRUE, resetPosition |-> FALSE],
           [type |-> "setPlaybackState", isPlaying |-> FALSE, resetPosition |-> FALSE],
           [type |-> "setPlaybackState", isPlaying |-> FALSE, resetPosition |-> TRUE] }
    \cup { [type |-> "seek", time |-> t] : t \in SeekTimes }
    \cup { [type |-> "setLoopPoints", startTime |-> r[1], endTime |-> r[2], enabled |-> e] :
              r \in LoopRegions, e \in BOOLEAN }
    \cup { [type |-> "triggerEnvelope"], [type |-> "releaseEnvelope"],
           [type |-> "setEnvelopeParameters"] }
    \cup { [type |-> "setEffectParameter", effectType |-> e[1], paramName |-> e[2],
            value |-> e[3]] : e \in EffectSettings }

Stamp(c, n) == [f \in DOMAIN c \cup {"seq"} |-> IF f = "seq" THEN n ELSE c[f]]

\* the UI handlers exist only once createSamplerWorklet has posted 'init'
PostCommand ==
    /\ initPosted
    /\ Len(port) < MaxQueue
    /\ nextSeq <= MaxCmds + 1
    /\ \E c \in Commands : port' = Append(port, Stamp(c, nextSeq))
    /\ nextSeq' = nextSeq + 1
    /\ UNCHANGED <<initPosted, engineVars, videoVars, renderVars, uiVars, auxVars>>

\* ----------------------------------------------------------------- engine
Receive(type) ==
    /\ port # <<>>
    /\ Head(port).type = type
    /\ port' = Tail(port)
    /\ keepAlive' = <<>>
    /\ failedAt' = 0
    /\ UNCHANGED <<initPosted, nextSeq, videoVars, renderVars, uiVars, auxVars>>

\* initializeWasm that ends without setting this.initialized
InitializeWasm_NotInitialized ==
    /\ sampleBuffer' = <<>>
    /\ sampleRate' = 0
    /\ isPlaying' = FALSE
    /\ playbackPosition' = 0
    /\ initialized' = FALSE
    /\ rustProcessor' = "object"
    /\ portOut' = << [type |-> "initialized"] >>

\* initializeWasm: the JavaScript sampler replaces the Rust processor
InitializeWasm ==
    /\ sampleBuffer' = <<>>
    /\ sampleRate' = 0
    /\ isPlaying' = FALSE
    /\ playbackPosition' = 0
    /\ initialized' = TRUE
    /\ rustProcessor' = "object"
    /\ portOut' = << [type |-> "initialized"] >>

HandleInit ==
    /\ Receive("init")
    /\ InitializeWasm
    /\ handled' = Append(handled, Head(port).seq)
    /\ lastOp' = Op("init", Head(port))
    /\ UNCHANGED <<loopPoints, outputs, stoppedAt, discarded>>

\* the guard every command handler but init starts with:
\* if (!this.initialized) { console.warn(...); return; }
Discard(name) ==
    /\ discarded' = discarded \cup {Head(port).seq}
    /\ lastOp' = Op(name, Head(port))
    /\ portOut' = <<>>
    /\ UNCHANGED <<initialized, rustProcessor, sampleBuffer, sampleRate, isPlaying,
                   playbackPosition, loopPoints, outputs, stoppedAt, handled>>

Handled(name) ==
    /\ handled' = Append(handled, Head(port).seq)
    /\ discarded' = discarded
    /\ lastOp' = Op(name, Head(port))

\* rustProcessor.load_sample_data
load_sample_data(leftChannel, rate) ==
    /\ sampleBuffer' = <<leftChannel>>
    /\ sampleRate' = rate
    /\ playbackPosition' = 0

\* loadSample
HandleLoadSample ==
    /\ Receive("loadSample")
    /\ IF ~initialized THEN Discard("loadSample")
       ELSE /\ load_sample_data(SampleData(Head(port).length), Head(port).sampleRate)
            /\ portOut' = << [type |-> "sampleLoaded"] >>
            /\ Handled("loadSample")
            /\ UNCHANGED <<initialized, rustProcessor, isPlaying, loopPoints,
                           outputs, stoppedAt>>

\* rustProcessor.set_playback_state: the position after the call
set_playback_state(playing, position) == IF ~playing THEN 0 ELSE position

\* a setPlaybackState that leaves the position alone
PlaybackStatePosition_Keeps(playing, resetPosition, position) == position

\* setPlaybackState: the position after the call
PlaybackStatePosition(playing, resetPosition, position) ==
    set_playback_state(playing, IF resetPosition THEN 0 ELSE position)

HandleSetPlaybackState ==
    /\ Receive("setPlaybackState")
    /\ IF ~initialized THEN Discard("setPlaybackState")
       ELSE /\ isPlaying' = Head(port).isPlaying
            /\ playbackPosition' =
                 PlaybackStatePosition(Head(port).isPlaying, Head(port).resetPosition,
                                       playbackPosition)
            /\ portOut' = <<>>
            /\ Handled("setPlaybackState")
            /\ UNCHANGED <<initialized, rustProcessor, sampleBuffer, sampleRate,
                           loopPoints, outputs, stoppedAt>>

\* Math.floor(time * this.sampleRate), time a numerator over TimeDen
TimeToSample(time, rate) == (time * rate) \div TimeDen

\* a clamp to length instead of length - 1
ClampIndex_ToLength(index, length) == Max(0, Min(index, length))

\* Math.max(0, Math.min(index, length - 1))
ClampIndex(index, length) == Max(0, Min(index, length - 1))

\* seek: the position after the call
SeekPosition(time) ==
    IF HasBuffer /\ sampleRate # 0
    THEN ClampIndex(TimeToSample(time, sampleRate), BufferLength) * DeviceRate
    ELSE playbackPosition

HandleSeek ==
    /\ Receive("seek")
    /\ IF ~initialized THEN Discard("seek")
       ELSE /\ playbackPosition' = SeekPosition(Head(port).time)
            /\ portOut' = <<>>
            /\ Handled("seek")
            /\ UNCHANGED <<initialized, rustProcessor, sampleBuffer, sampleRate,
                           isPlaying, loopPoints, outputs, stoppedAt>>

\* setLoopPoints: the worklet logs the region and changes nothing it plays from
HandleSetLoopPoints ==
    /\ Receive("setLoopPoints")
    /\ IF ~initialized THEN Discard("setLoopPoints")
       ELSE /\ loopPoints' = [start |-> Head(port).startTime, end |-> Head(port).endTime,
                              enabled |-> Head(port).enabled]
            /\ portOut' = <<>>
            /\ Handled("setLoopPoints")
            /\ UNCHANGED <<initialized, rustProcessor, sampleBuffer, sampleRate,
                           isPlaying, playbackPosition, outputs, stoppedAt>>

\* triggerEnvelope, releaseEnvelope, setEnvelopeParameters, setEffectParameter:
\* each only logs its arguments
LogOnly(name) ==
    /\ Receive(name)
    /\ IF ~initialized THEN Discard(name)
       ELSE /\ portOut' = <<>>
            /\ Handled(name)
            /\ UNCHANGED <<initialized, rustProcessor, sampleBuffer, sampleRate,
                           isPlaying, playbackPosition, loopPoints, outputs, stoppedAt>>

\* what the worklet holds for an effect parameter: setEffectParameter logs its
\* arguments and no field keeps them
EffectParameterHeld(effectType, paramName) == [held |-> FALSE, value |-> 0]

HandleTriggerEnvelope == LogOnly("triggerEnvelope")
HandleReleaseEnvelope == LogOnly("releaseEnvelope")
HandleSetEnvelopeParameters == LogOnly("setEnvelopeParameters")
HandleSetEffectParameter == LogOnly("setEffectParameter")

\* rustProcessor.process, the loop over the frames i..n of output channel 0.
\* st: [position, isPlaying, output, stoppedAt]
RECURSIVE FillFrames(_, _, _)
FillFrames(i, n, st) ==
    IF i > n THEN st
    ELSE LET sampleIndex == Floor(st.position) IN
         IF sampleIndex >= BufferLength
         THEN FillFrames(i + 1, n,
                [position |-> 0, isPlaying |-> FALSE,
                 output |-> Append(st.output, 0),
                 stoppedAt |-> IF st.stoppedAt = 0 THEN i ELSE st.stoppedAt])
         ELSE FillFrames(i + 1, n,
                [st EXCEPT !.output = Append(@, Buffer[sampleIndex + 1]),
                           !.position = @ + sampleRate])

\* the loop over the frames i..BlockSize, a whole block
FillOutput(i, st) == FillFrames(i, BlockSize, st)

\* rustProcessor.process that does not test this.isPlaying
RustProcess_IgnoresIsPlaying ==
    IF HasBuffer
    THEN LET st == FillOutput(1, [position |-> playbackPosition, isPlaying |-> isPlaying,
                                  output |-> <<>>, stoppedAt |-> 0])
         IN  [position |-> st.position, isPlaying |-> st.isPlaying,
              outputs |-> <<st.output, st.output>>, stoppedAt |-> st.stoppedAt]
    ELSE [position |-> playbackPosition, isPlaying |-> isPlaying,
          outputs |-> SilentOutputs, stoppedAt |-> 0]

\* rustProcessor.process that keeps this.isPlaying at the end of the sample
RustProcess_NeverStops ==
    IF HasBuffer /\ isPlaying
    THEN LET st == FillOutput(1, [position |-> playbackPosition, isPlaying |-> isPlaying,
                                  output |-> <<>>, stoppedAt |-> 0])
         IN  [position |-> st.position, isPlaying |-> isPlaying,
              outputs |-> <<st.output, st.output>>, stoppedAt |-> st.stoppedAt]
    ELSE [position |-> playbackPosition, isPlaying |-> isPlaying,
          outputs |-> SilentOutputs, stoppedAt |-> 0]

\* rustProcessor.process: [position, isPlaying, outputs, stoppedAt] after the call
RustProcess ==
    IF HasBuffer /\ isPlaying
    THEN LET st == FillOutput(1, [position |-> playbackPosition, isPlaying |-> isPlaying,
                                  output |-> <<>>, stoppedAt |-> 0])
         IN  [position |-> st.position, isPlaying |-> st.isPlaying,
              outputs |-> <<st.output, st.output>>, stoppedAt |-> st.stoppedAt]
    ELSE [position |-> playbackPosition, isPlaying |-> isPlaying,
          outputs |-> SilentOutputs, stoppedAt |-> 0]

Abs(x) == IF x < 0 THEN -x ELSE x

RECURSIVE Peak(_)
Peak(s) == IF s = <<>> THEN 0 ELSE Max(Abs(Head(s)), Peak(Tail(s)))

RECURSIVE SumSquares(_)
SumSquares(s) == IF s = <<>> THEN 0 ELSE Head(s) * Head(s) + SumSquares(Tail(s))

\* the 'levels' event of a block; rms is sqrt(sum / length)
Levels(output) == [type |-> "levels", peak |-> Peak(output), sum |-> SumSquares(output)]

\* what rustProcessor.process returns
RustProcessReturn == TRUE

\* a try block whose catch returns false, which stops the processor
ProcessReturn_StopsOnFailure(failed) == IF failed THEN FALSE ELSE RustProcessReturn

\* what the try block of process() returns: result, or true from the catch
ProcessReturn(failed) == IF failed THEN TRUE ELSE RustProcessReturn

\* process: one render block in which nothing throws
ProcessBlock ==
    /\ IF ~initialized \/ rustProcessor = "null"
       THEN /\ outputs' = SilentOutputs
            /\ stoppedAt' = 0
            /\ portOut' = <<>>
            /\ keepAlive' = <<TRUE>>
            /\ UNCHANGED <<isPlaying, playbackPosition>>
       ELSE LET r == RustProcess IN
            /\ outputs' = r.outputs
            /\ stoppedAt' = r.stoppedAt
            /\ isPlaying' = r.isPlaying
            /\ playbackPosition' = r.position
            \* Math.random() < 0.05
            /\ \E throttle \in BOOLEAN :
                 portOut' = IF throttle THEN << Levels(r.outputs[1]) >> ELSE <<>>
            /\ keepAlive' = <<ProcessReturn(FALSE)>>
    /\ failedAt' = 0
    /\ lastOp' = Op("process", NoCmd)
    /\ UNCHANGED <<initialized, rustProcessor, sampleBuffer, sampleRate, loopPoints,
                   port, initPosted, nextSeq, handled, discarded>>

Process ==
    /\ ProcessBlock
    /\ UNCHANGED <<videoVars, renderVars, uiVars, auxVars>>

Init ==
    /\ initialized = FALSE
    /\ rustProcessor = "null"
    /\ sampleBuffer = <<>>
    /\ sampleRate = 0
    /\ isPlaying = FALSE
    /\ playbackPosition = 0
    /\ loopPoints = [start |-> 0, end |-> 0, enabled |-> FALSE]
    /\ outputs = SilentOutputs
    /\ stoppedAt = 0
    /\ port = <<>>
    /\ portOut = <<>>
    /\ initPosted = FALSE
    /\ nextSeq = 1
    /\ handled = <<>>
    /\ discarded = {}
    /\ lastOp = Op("none", NoCmd)
    /\ keepAlive = <<>>
    /\ failedAt = 0
    /\ hasElement = TRUE
    /\ frameBuffer = <<>>
    /\ isDecoding = FALSE
    /\ currentTime = 0
    /\ duration = 0
    /\ videoTime = 0
    /\ closeCount = [id \in 1..MaxFrames |-> 0]
    /\ nextFrameId = 1
    /\ maxTimeDifference = DefaultMaxTimeDifference
    /\ vLast = [op |-> "none", arg |-> 0, ret |-> 0, buffer |-> <<>>,
                currentTime |-> 0, videoTime |-> 0, lastRendered |-> -1]
    /\ lastRenderedFrameTime = -1
    /\ loopStartValue = 0
    /\ loopEndValue = MaxSlider
    /\ loopEnabled = FALSE
    /\ onLoopChange = FALSE
    /\ totalTimeText = 0
    /\ uiLast = [op |-> "none", reported |-> <<>>, duration |-> 0]
    /\ audioBuffer = FALSE
    /\ mainIsPlaying = FALSE
    /\ mainCurrentTime = 0
    /\ totalDuration = 0
    /\ animationFrameId = FALSE
    /\ sinceLastTime = 0
    /\ mainVideoDecoder = FALSE
    /\ mainLast = [op |-> "none", arg |-> 0]
    /\ captureLoops = 0
    /\ captureLast = [op |-> "none", pushed |-> 0, decoding |-> FALSE]
    /\ lastFrame = [id |-> 0, timestamp |-> 0]
    /\ rendered = [frame |-> [id |-> 0, timestamp |-> 0], closed |-> FALSE]
    /\ syncIntervalId = 0
    /\ activeTimers = {}
    /\ nextTimerId = 1
    /\ keyStates = {}
    /\ keyLast = [op |-> "none", key |-> "", called |-> "none"]
    /\ playBtnDisabled = FALSE
    /\ pauseBtnDisabled = FALSE
    /\ stopBtnDisabled = FALSE

Next ==
    \/ PostInit
    \/ PostCommand
    \/ HandleInit
    \/ HandleLoadSample
    \/ HandleSetPlaybackState
    \/ HandleSeek
    \/ HandleSetLoopPoints
    \/ HandleTriggerEnvelope
    \/ HandleReleaseEnvelope
    \/ HandleSetEnvelopeParameters
    \/ HandleSetEffectParameter
    \/ Process

Spec == Init /\ [][Next]_vars

\* ----------------------------------------------------------------- faults
\* the frames of a block at which an exception can be raised inside the try
\* block of process(): 1..BlockSize while rustProcessor.process writes that
\* frame, BlockSize + 1 after it has returned, while the levels are computed
FaultPoints == 1..(BlockSize + 1)

\* a channel the exception left unfinished: the platform hands process() the
\* output arrays zero-filled, frames not reached stay 0
ZeroPad(s) == s \o [i \in 1..(BlockSize - Len(s)) |-> 0]

\* rustProcessor.process that throws on frame f: the frames before f of
\* channel 0 are written, the copy to channel 1 is not reached
RustProcessUntil(f) ==
    IF HasBuffer /\ isPlaying
    THEN LET st == FillFrames(1, f - 1, [position |-> playbackPosition,
                                         isPlaying |-> isPlaying,
                                         output |-> <<>>, stoppedAt |-> 0])
         IN  [position |-> st.position, isPlaying |-> st.isPlaying,
              outputs |-> <<ZeroPad(st.output), Silence>>, stoppedAt |-> st.stoppedAt]
    ELSE [position |-> playbackPosition, isPlaying |-> isPlaying,
          outputs |-> SilentOutputs, stoppedAt |-> 0]

\* process whose try block throws: the catch logs the error and returns true
ProcessFault ==
    /\ initialized /\ rustProcessor = "object"
    /\ \E f \in FaultPoints :
         LET r == IF f <= BlockSize THEN RustProcessUntil(f) ELSE RustProcess IN
         /\ outputs' = r.outputs
         /\ stoppedAt' = r.stoppedAt
         /\ isPlaying' = r.isPlaying
         /\ playbackPosition' = r.position
         /\ failedAt' = f
    /\ portOut' = <<>>
    /\ keepAlive' = <<ProcessReturn(TRUE)>>
    /\ lastOp' = Op("process", NoCmd)
    /\ UNCHANGED <<initialized, rustProcessor, sampleBuffer, sampleRate, loopPoints,
                   port, initPosted, nextSeq, handled, discarded, videoVars,
                   renderVars, uiVars, auxVars>>

\* initializeWasm whose try block throws, before this.initialized is set or
\* after the processor is built: the catch posts one 'error' event
InitializeWasmFailure ==
    /\ \E built \in BOOLEAN :
         /\ initialized' = built
         /\ rustProcessor' = IF built THEN "object" ELSE "null"
    /\ portOut' = << [type |-> "error"] >>
    /\ UNCHANGED <<sampleBuffer, sampleRate, isPlaying, playbackPosition>>

HandleInitFailure ==
    /\ Receive("init")
    /\ InitializeWasmFailure
    /\ handled' = Append(handled, Head(port).seq)
    /\ lastOp' = Op("init", Head(port))
    /\ UNCHANGED <<loopPoints, outputs, stoppedAt, discarded>>

\* the commands of the file and transport controls
TransportCommands == { c \in Commands : c.type \in {"loadSample", "setPlaybackState"} }

PostTransportCommand ==
    /\ initPosted
    /\ Len(port) < MaxQueue
    /\ nextSeq <= MaxCmds + 1
    /\ \E c \in TransportCommands : port' = Append(port, Stamp(c, nextSeq))
    /\ nextSeq' = nextSeq + 1
    /\ UNCHANGED <<initPosted, engineVars, videoVars, renderVars, uiVars, auxVars>>

NextFault ==
    \/ PostInit
    \/ PostTransportCommand
    \/ HandleInit
    \/ HandleInitFailure
    \/ HandleLoadSample
    \/ HandleSetPlaybackState
    \/ Process
    \/ ProcessFault

\* the worklet, loading and playing samples, with failures inside its try blocks
SpecFault == Init /\ [][NextFault]_vars

\* the commands that load a sample of the longest length and start it
PlayCommands ==
    { c \in Commands : \/ c.type = "loadSample" /\ c.length = MaxLen
                       \/ c.type = "setPlaybackState" /\ c.isPlaying }

PostPlayCommand ==
    /\ initPosted
    /\ Len(port) < MaxQueue
    /\ nextSeq <= MaxCmds + 1
    /\ \E c \in PlayCommands : port' = Append(port, Stamp(c, nextSeq))
    /\ nextSeq' = nextSeq + 1
    /\ UNCHANGED <<initPosted, engineVars, videoVars, renderVars, uiVars, auxVars>>

NextPlay ==
    \/ PostInit
    \/ PostPlayCommand
    \/ HandleInit
    \/ HandleLoadSample
    \/ HandleSetPlaybackState
    \/ Process

\* what a render block changes of the playback
playVars == <<isPlaying, playbackPosition, outputs, stoppedAt, lastOp>>

\* the worklet, loading and playing samples, in a running audio graph: the
\* audio thread calls process() for every render quantum, again and again
SpecPlay == Init /\ [][NextPlay]_vars /\ WF_playVars(Process)

\* ------------------------------------------------------------------ video
\* The video decoder manager (its frame buffer and its hidden video element)
\* and the audio/video synchronisation module. The audio clock is the master:
\* its readings are the arguments of the sync check.

\* readings of the audio clock and times of a frame query
AudioTimes == 0..MaxTime
\* durations the metadata of a video carries
VideoDurations == {MaxTime - 1}
\* values setSyncConfig gives to maxTimeDifference
Tolerances == {DefaultMaxTimeDifference, DefaultMaxTimeDifference + 1}

\* the value null where a frame is expected
NullFrame == [id |-> 0, timestamp |-> 0]

\* seconds to microseconds: time * 1000000
Microseconds(time) == time * MicrosPerSecond

VOp(name, arg, ret) ==
    [op |-> name, arg |-> arg, ret |-> ret, buffer |-> frameBuffer,
     currentTime |-> currentTime, videoTime |-> videoTime,
     lastRendered |-> lastRenderedFrameTime]

\* close() called on no frame
CloseAll_None(counts, frames) == counts

\* close() called on each of frames
CloseAll(counts, frames) ==
    [id \in DOMAIN counts |->
        counts[id] + Cardinality({i \in 1..Len(frames) : frames[i].id = id})]

\* a buffer that is never trimmed
Overflow_Never(buffer) == 0

\* iterations of `while (this.frameBuffer.length > this.maxBufferSize)`
Overflow(buffer) == Max(0, Len(buffer) - maxBufferSize)

\* the frames pop() would remove, the newest ones
Shifted_Newest(buffer, n) == SubSeq(buffer, Len(buffer) - n + 1, Len(buffer))

\* the frames n calls of shift() remove, the oldest ones
Shifted(buffer, n) == SubSeq(buffer, 1, n)

\* the buffer without the frames of removed (each frame is an object of its own)
Without(buffer, removed) ==
    SelectSeq(buffer, LAMBDA f : \A i \in 1..Len(removed) : removed[i] # f)

\* addFrameToBuffer: [buffer, closed] after the push and the trimming loop
addFrameToBuffer(frame) ==
    LET pushed == Append(frameBuffer, frame)
        removed == Shifted(pushed, Overflow(pushed))
    IN  [buffer |-> Without(pushed, removed), closed |-> removed]

\* what clearFrameBuffer leaves when it keeps the newest frame
ClearedBuffer_KeepsNewest ==
    IF frameBuffer = <<>> THEN <<>> ELSE << frameBuffer[Len(frameBuffer)] >>

\* this.frameBuffer = []
ClearedBuffer == <<>>

\* clearFrameBuffer: every frame of the buffer is closed, the buffer is emptied
clearFrameBuffer ==
    /\ closeCount' = CloseAll(closeCount, frameBuffer)
    /\ frameBuffer' = ClearedBuffer

\* `diff <= closestDiff`, which prefers the latest frame on a tie
Closer_OrEqual(closest, diff) == closest.frame = NullFrame \/ diff <= closest.diff

\* `diff < closestDiff`, closestDiff being Infinity while closestFrame is null
Closer(closest, diff) == closest.frame = NullFrame \/ diff < closest.diff

\* the loop of getFrameAtTime over the frames i.. of the buffer
RECURSIVE ClosestFrom(_, _, _)
ClosestFrom(i, timeUs, closest) ==
    IF i > Len(frameBuffer) THEN closest
    ELSE LET diff == Abs(frameBuffer[i].timestamp - timeUs) IN
         ClosestFrom(i + 1, timeUs,
            IF Closer(closest, diff)
            THEN [frame |-> frameBuffer[i], diff |-> diff]
            ELSE closest)

\* getFrameAtTime: the frame returned, NullFrame for null
getFrameAtTime(time) ==
    ClosestFrom(1, Microseconds(time), [frame |-> NullFrame, diff |-> 0]).frame

\* the decoder's seek: clamp, set videoElement.currentTime, clear the buffer
seek(time) ==
    /\ videoTime' = Max(0, Min(time, duration))
    /\ clearFrameBuffer

\* ------------------------------------------------------- decoder operations
\* initVideoDecoder when no decoder instance exists: a new manager
InitVideoDecoder ==
    /\ ~hasElement
    /\ hasElement' = TRUE
    /\ frameBuffer' = <<>>
    /\ isDecoding' = FALSE
    /\ currentTime' = 0
    /\ duration' = 0
    /\ videoTime' = 0
    /\ vLast' = VOp("initVideoDecoder", 0, 0)
    /\ UNCHANGED <<closeCount, nextFrameId, maxTimeDifference, workletVars,
                   renderVars, uiVars, auxVars>>

\* loadVideo: resetState, then the metadata of the new source (ok) or its error
LoadVideo ==
    /\ hasElement
    /\ clearFrameBuffer
    /\ isDecoding' = FALSE
    /\ currentTime' = 0
    /\ videoTime' = 0
    /\ \E ok \in BOOLEAN : \E d \in VideoDurations :
         /\ duration' = IF ok THEN d ELSE 0
         /\ vLast' = VOp("loadVideo", 0, ok)
    /\ UNCHANGED <<hasElement, nextFrameId, maxTimeDifference, workletVars,
                   renderVars, uiVars, auxVars>>

StartDecoding ==
    /\ hasElement
    /\ ~isDecoding
    /\ isDecoding' = TRUE
    /\ vLast' = VOp("startDecoding", 0, 0)
    /\ UNCHANGED <<hasElement, frameBuffer, currentTime, duration, videoTime, closeCount,
                   nextFrameId, maxTimeDifference, workletVars,
                   renderVars, uiVars, auxVars>>

StopDecoding ==
    /\ hasElement
    /\ isDecoding
    /\ isDecoding' = FALSE
    /\ vLast' = VOp("stopDecoding", 0, 0)
    /\ UNCHANGED <<hasElement, frameBuffer, currentTime, duration, videoTime, closeCount,
                   nextFrameId, maxTimeDifference, workletVars,
                   renderVars, uiVars, auxVars>>

\* the video element plays: its currentTime advances up to the duration
VideoAdvance ==
    /\ hasElement
    /\ isDecoding
    /\ videoTime < duration
    /\ videoTime' = videoTime + 1
    /\ vLast' = VOp("play", 0, 0)
    /\ UNCHANGED <<hasElement, frameBuffer, isDecoding, currentTime, duration, closeCount,
                   nextFrameId, maxTimeDifference, workletVars,
                   renderVars, uiVars, auxVars>>

\* handleTimeUpdate, the 'timeupdate' listener
HandleTimeUpdate ==
    /\ hasElement
    /\ currentTime # videoTime
    /\ currentTime' = videoTime
    /\ vLast' = VOp("timeupdate", 0, 0)
    /\ UNCHANGED <<hasElement, frameBuffer, isDecoding, duration, videoTime, closeCount,
                   nextFrameId, maxTimeDifference, workletVars,
                   renderVars, uiVars, auxVars>>

\* captureFrame, one turn of the capture loop: a new frame is pushed
CaptureFrame ==
    /\ hasElement
    /\ isDecoding
    /\ nextFrameId <= MaxFrames
    /\ LET frame == [id |-> nextFrameId, timestamp |-> Microseconds(videoTime)]
           r == addFrameToBuffer(frame)
       IN  /\ frameBuffer' = r.buffer
           /\ closeCount' = CloseAll(closeCount, r.closed)
           /\ vLast' = VOp("push", frame, r.closed)
    /\ nextFrameId' = nextFrameId + 1
    /\ UNCHANGED <<hasElement, isDecoding, currentTime, duration, videoTime,
                   maxTimeDifference, workletVars,
                   renderVars, uiVars, auxVars>>

\* the frame query of the render loop and of renderFrameForTime
GetFrameAtTime ==
    /\ hasElement
    /\ \E t \in AudioTimes : vLast' = VOp("getFrameAtTime", t, getFrameAtTime(t))
    /\ UNCHANGED <<hasElement, frameBuffer, isDecoding, currentTime, duration, videoTime,
                   closeCount, nextFrameId, maxTimeDifference, workletVars,
                   renderVars, uiVars, auxVars>>

\* a seek of the decoder
Seek ==
    /\ hasElement
    /\ \E t \in AudioTimes :
         /\ seek(t)
         /\ vLast' = VOp("seek", t, 0)
    /\ UNCHANGED <<hasElement, isDecoding, currentTime, duration, nextFrameId,
                   maxTimeDifference, workletVars,
                   renderVars, uiVars, auxVars>>

\* cleanup: stopDecoding, clearFrameBuffer, the video element is removed
Cleanup ==
    /\ hasElement
    /\ isDecoding' = FALSE
    /\ clearFrameBuffer
    /\ hasElement' = FALSE
    /\ vLast' = VOp("cleanup", 0, 0)
    /\ UNCHANGED <<currentTime, duration, videoTime, nextFrameId, maxTimeDifference,
                   workletVars,
                   renderVars, uiVars, auxVars>>

\* ---------------------------------------------------------------- sync.js
\* `timeDiff >= config.maxTimeDifference`
NeedsResync_OrEqual(timeDiff, tolerance) == timeDiff >= tolerance

\* `timeDiff > config.maxTimeDifference`
NeedsResync(timeDiff, tolerance) == timeDiff > tolerance

\* syncAudioVideo. lastSyncTime, a wall-clock stamp no decision reads, is left out.
SyncAudioVideo ==
    \E audioTime \in AudioTimes :
        IF ~hasElement
        THEN /\ vLast' = VOp("sync", audioTime, "nodecoder")
             /\ UNCHANGED <<hasElement, frameBuffer, isDecoding, currentTime, duration,
                            videoTime, closeCount, nextFrameId, maxTimeDifference,
                            workletVars,
                   renderVars, uiVars, auxVars>>
        ELSE LET timeDiff == Abs(audioTime - currentTime) IN
             IF NeedsResync(timeDiff, maxTimeDifference)
             THEN /\ seek(audioTime)
                  /\ vLast' = VOp("sync", audioTime, "seek")
                  /\ UNCHANGED <<hasElement, isDecoding, currentTime, duration,
                                 nextFrameId, maxTimeDifference, workletVars,
                   renderVars, uiVars, auxVars>>
             ELSE /\ vLast' = VOp("sync", audioTime, "none")
                  /\ UNCHANGED <<hasElement, frameBuffer, isDecoding, currentTime,
                                 duration, videoTime, closeCount, nextFrameId,
                                 maxTimeDifference, workletVars,
                   renderVars, uiVars, auxVars>>

\* `Math.abs(timeDiff) < config.maxTimeDifference`
InSync_Strict(timeDiff, tolerance) == Abs(timeDiff) < tolerance

\* `Math.abs(timeDiff) <= config.maxTimeDifference`
InSync(timeDiff, tolerance) == Abs(timeDiff) <= tolerance

\* Math.max(0, 100 - (Math.abs(timeDiff) / tolerance) * 100), as the numerator
\* of a fraction over tolerance (tolerance > 0)
SyncQuality(timeDiff, tolerance) == Max(0, 100 * tolerance - Abs(timeDiff) * 100)

\* calculateSyncMetrics: quality is a numerator over tolerance
Metrics(audioTime) ==
    IF ~hasElement
    THEN [timeDifference |-> 0, inSync |-> TRUE, quality |-> 100, tolerance |-> 1]
    ELSE LET timeDiff == audioTime - currentTime IN
         [timeDifference |-> timeDiff,
          inSync |-> InSync(timeDiff, maxTimeDifference),
          quality |-> SyncQuality(timeDiff, maxTimeDifference),
          tolerance |-> maxTimeDifference]

CalculateSyncMetrics ==
    /\ \E audioTime \in AudioTimes :
         vLast' = VOp("metrics", audioTime, Metrics(audioTime))
    /\ UNCHANGED <<hasElement, frameBuffer, isDecoding, currentTime, duration, videoTime,
                   closeCount, nextFrameId, maxTimeDifference, workletVars,
                   renderVars, uiVars, auxVars>>

\* setSyncConfig({ maxTimeDifference })
SetSyncConfig ==
    /\ \E m \in Tolerances :
         /\ m # maxTimeDifference
         /\ maxTimeDifference' = m
         /\ vLast' = VOp("setSyncConfig", m, 0)
    /\ UNCHANGED <<hasElement, frameBuffer, isDecoding, currentTime, duration, videoTime,
                   closeCount, nextFrameId, workletVars,
                   renderVars, uiVars, auxVars>>

\* handleError, the 'error' listener of the video element: the error is
\* logged and handed to onError (handleDecoderError), which logs it
HandleError ==
    /\ hasElement
    /\ vLast' = VOp("error", 0, 0)
    /\ UNCHANGED <<hasElement, frameBuffer, isDecoding, currentTime, duration, videoTime,
                   closeCount, nextFrameId, maxTimeDifference, workletVars, renderVars,
                   uiVars, auxVars>>

\* frame.timestamp / 1000000
Seconds(timestamp) == timestamp \div MicrosPerSecond

\* a frame is always taken for new
IsNewFrame_Always(frameTime) == TRUE

\* frameTime !== lastRenderedFrameTime
IsNewFrame(frameTime) == frameTime # lastRenderedFrameTime

\* renderFrame of setupVideoRenderer (renderer.js): the frame becomes
\* lastFrame; the render loop, started by default, draws it on its next turn
renderFrame(frame) == lastFrame' = frame

\* renderFrameForTime with a decoder and a renderer: ret is the frame selected
\* and whether renderer.renderFrame was called with it
RenderFrameForTime ==
    /\ hasElement
    /\ \E audioTime \in AudioTimes :
         LET frame == getFrameAtTime(audioTime)
             isNewFrame == frame # NullFrame /\ IsNewFrame(Seconds(frame.timestamp))
         IN  /\ lastRenderedFrameTime' =
                  IF isNewFrame THEN Seconds(frame.timestamp) ELSE lastRenderedFrameTime
             /\ vLast' = VOp("renderFrameForTime", audioTime,
                             [frame |-> frame, rendered |-> isNewFrame])
             /\ IF isNewFrame THEN renderFrame(frame) ELSE UNCHANGED lastFrame
    /\ UNCHANGED <<hasElement, frameBuffer, isDecoding, currentTime, duration, videoTime,
                   closeCount, nextFrameId, maxTimeDifference, workletVars, uiVars>>
    /\ UNCHANGED <<rendered, captureVars, timerVars, keyVars, buttonVars>>

\* whether close() has been called on frame
Closed(frame) == closeCount[frame.id] > 0

\* renderLoop of setupVideoRenderer (renderer.js), one animation frame: the
\* last frame handed to renderFrame is passed to renderer.render
RenderLoop ==
    /\ lastFrame # NullFrame
    /\ rendered' = [frame |-> lastFrame, closed |-> Closed(lastFrame)]
    /\ UNCHANGED <<lastFrame, captureVars, timerVars, keyVars, buttonVars>>
    /\ UNCHANGED <<videoVars, workletVars, renderVars, uiVars>>

NextVideo ==
    \/ InitVideoDecoder
    \/ LoadVideo
    \/ StartDecoding
    \/ StopDecoding
    \/ VideoAdvance
    \/ HandleTimeUpdate
    \/ CaptureFrame
    \/ GetFrameAtTime
    \/ Seek
    \/ Cleanup
    \/ SyncAudioVideo
    \/ CalculateSyncMetrics
    \/ SetSyncConfig

\* the video decoder and the sync module; the worklet stays as constructed
SpecVideo == Init /\ [][NextVideo]_vars

NextRender ==
    \/ LoadVideo
    \/ StartDecoding
    \/ VideoAdvance
    \/ CaptureFrame
    \/ HandleError
    \/ SyncAudioVideo
    \/ RenderFrameForTime

\* the capture loop feeding the buffer, with frame presentation by
\* renderFrameForTime, the sync check and errors of the video element
SpecRender == Init /\ [][NextRender]_vars

NextRenderer ==
    \/ LoadVideo
    \/ StartDecoding
    \/ VideoAdvance
    \/ CaptureFrame
    \/ RenderFrameForTime
    \/ RenderLoop

\* the capture loop feeding the buffer and the renderer of renderer.js, which
\* is handed frames by renderFrameForTime and draws in its own loop
SpecRenderer == Init /\ [][NextRenderer]_vars

\* --------------------------------------------------------- continuous sync
\* a startContinuousSync that clears no interval
ClearedOnStart_None == {}

\* `if (syncIntervalId) stopContinuousSync()`: the intervals cleared
ClearedOnStart == IF syncIntervalId # 0 THEN {syncIntervalId} ELSE {}

\* startContinuousSync
StartContinuousSync ==
    /\ nextTimerId <= MaxTimers
    /\ activeTimers' = (activeTimers \ ClearedOnStart) \cup {nextTimerId}
    /\ syncIntervalId' = nextTimerId
    /\ nextTimerId' = nextTimerId + 1
    /\ UNCHANGED <<captureVars, rendererVars, keyVars, buttonVars>>
    /\ UNCHANGED <<videoVars, workletVars, renderVars, uiVars>>

\* stopContinuousSync
StopContinuousSync ==
    /\ syncIntervalId # 0
    /\ activeTimers' = activeTimers \ {syncIntervalId}
    /\ syncIntervalId' = 0
    /\ UNCHANGED <<nextTimerId, captureVars, rendererVars, keyVars, buttonVars>>
    /\ UNCHANGED <<videoVars, workletVars, renderVars, uiVars>>

\* the callback of an interval that is set and not cleared
SyncTimerTick ==
    /\ activeTimers # {}
    /\ SyncAudioVideo

NextSync ==
    \/ LoadVideo
    \/ HandleTimeUpdate
    \/ StartContinuousSync
    \/ StopContinuousSync
    \/ SyncTimerTick

\* the periodic sync check of sync.js over a loaded video
SpecSync == Init /\ [][NextSync]_vars

\* ------------------------------------------------------------ capture loop
\* the frames n runs of captureFrame create, one after the other
RECURSIVE CapturedFrames(_, _)
CapturedFrames(id, n) ==
    IF n = 0 THEN <<>>
    ELSE << [id |-> id, timestamp |-> Microseconds(videoTime)] >> \o CapturedFrames(id + 1, n - 1)

\* addFrameToBuffer for each of frames in turn: [buffer, closed]
AddFramesToBuffer(frames) ==
    LET pushed == frameBuffer \o frames
        removed == Shifted(pushed, Overflow(pushed))
    IN  [buffer |-> Without(pushed, removed), closed |-> removed]

\* n runs of captureFrame that find isDecoding set
Capture(n) ==
    LET r == AddFramesToBuffer(CapturedFrames(nextFrameId, n))
    IN  /\ nextFrameId + n - 1 <= MaxFrames
        /\ frameBuffer' = r.buffer
        /\ closeCount' = CloseAll(closeCount, r.closed)
        /\ nextFrameId' = nextFrameId + n

\* startDecoding: isDecoding is set, the video element plays, and
\* captureFrames runs captureFrame once, which requests its next run
StartDecodingLoop ==
    /\ hasElement
    /\ ~isDecoding
    /\ captureLoops < MaxLoops
    /\ isDecoding' = TRUE
    /\ Capture(1)
    /\ captureLoops' = captureLoops + 1
    /\ captureLast' = [op |-> "start", pushed |-> 1, decoding |-> TRUE]
    /\ vLast' = VOp("startDecoding", 0, 0)
    /\ UNCHANGED <<hasElement, currentTime, duration, videoTime, maxTimeDifference>>
    /\ UNCHANGED <<workletVars, renderVars, uiVars, rendererVars, timerVars, keyVars,
                   buttonVars>>

\* one animation frame: every requested captureFrame callback runs; with
\* isDecoding unset it returns, otherwise it pushes a frame and requests its
\* next run
CaptureAnimationFrame ==
    /\ hasElement
    /\ captureLoops > 0
    /\ IF isDecoding
       THEN /\ Capture(captureLoops)
            /\ captureLoops' = captureLoops
            /\ captureLast' = [op |-> "frame", pushed |-> captureLoops, decoding |-> TRUE]
       ELSE /\ captureLoops' = 0
            /\ captureLast' = [op |-> "frame", pushed |-> 0, decoding |-> FALSE]
            /\ UNCHANGED <<frameBuffer, closeCount, nextFrameId>>
    /\ vLast' = VOp("animationFrame", 0, 0)
    /\ UNCHANGED <<hasElement, isDecoding, currentTime, duration, videoTime,
                   maxTimeDifference>>
    /\ UNCHANGED <<workletVars, renderVars, uiVars, rendererVars, timerVars, keyVars,
                   buttonVars>>

NextCapture ==
    \/ LoadVideo
    \/ StartDecodingLoop
    \/ StopDecoding
    \/ VideoAdvance
    \/ HandleTimeUpdate
    \/ CaptureAnimationFrame

\* the decoder manager with its capture loops, one turn per animation frame
SpecCapture == Init /\ [][NextCapture]_vars

\* ------------------------------------------------------- transport controls
\* the values a loop slider takes (min and max of the range inputs)
SliderValues == 0..MaxSlider

\* a range input keeps the value it is assigned between its min and its max
SliderValue(v) == Max(0, Min(MaxSlider, v))

\* durations of a loaded file, numerators over TimeDen
ShownDurations == 0..(MaxShown * TimeDen)

\* formatTime: the minutes and the seconds of the floor of the duration,
\* kept as the whole seconds the MM:SS text stands for
formatTime(seconds) == seconds \div TimeDen

\* parseDurationString: minutes * 60 + seconds of an MM:SS text
parseDurationString(text) == text

\* the loopCallback main.js hands to setupTransportControls: it passes the
\* play, pause, stop and seek callbacks and no fifth argument
MainLoopCallback == FALSE

\* the click on 'Initialize Audio System': createSamplerWorklet posts 'init',
\* setupTransportControls stores the callbacks and adds the listeners
InitAudioClick ==
    /\ ~initPosted
    /\ initPosted' = TRUE
    /\ port' = Append(port, [type |-> "init", seq |-> nextSeq])
    /\ nextSeq' = nextSeq + 1
    /\ onLoopChange' = MainLoopCallback
    /\ uiLast' = [op |-> "setup", reported |-> <<>>, duration |-> uiLast.duration]
    /\ UNCHANGED <<loopStartValue, loopEndValue, loopEnabled, totalTimeText>>
    /\ UNCHANGED <<engineVars, videoVars, renderVars, mainVars, auxVars>>

\* updateTotalDuration of main.js: the total-time text of a loaded file
ShowTotalDuration ==
    /\ initPosted
    /\ \E d \in ShownDurations :
         /\ totalTimeText' = formatTime(d)
         /\ uiLast' = [op |-> "totalDuration", reported |-> <<>>, duration |-> d]
    /\ UNCHANGED <<loopStartValue, loopEndValue, loopEnabled, onLoopChange>>
    /\ UNCHANGED <<workletVars, videoVars, renderVars, mainVars, auxVars>>

\* (value / 100) * totalTime, as a numerator over MaxSlider
LoopTime(value, totalTime) == value * totalTime

\* handleLoopChange: what is handed to onLoopChange, nothing without a callback
LoopReport(startValue, endValue, enabled) ==
    IF onLoopChange
    THEN LET totalTime == parseDurationString(totalTimeText)
         IN  << [startTime |-> LoopTime(startValue, totalTime),
                 endTime |-> LoopTime(endValue, totalTime),
                 enabled |-> enabled] >>
    ELSE <<>>

\* the user moves the loop start slider: handleLoopStartInput on 'input',
\* handleLoopChange on 'change'
LoopStartChange ==
    /\ initPosted
    /\ \E v \in SliderValues :
         LET startValue == IF v >= loopEndValue THEN SliderValue(loopEndValue - 1) ELSE v
         IN  /\ loopStartValue' = startValue
             /\ uiLast' = [op |-> "loopStart",
                           reported |-> LoopReport(startValue, loopEndValue, loopEnabled),
                           duration |-> uiLast.duration]
    /\ UNCHANGED <<loopEndValue, loopEnabled, onLoopChange, totalTimeText>>
    /\ UNCHANGED <<workletVars, videoVars, renderVars, mainVars, auxVars>>

\* the user moves the loop end slider: handleLoopEndInput on 'input',
\* handleLoopChange on 'change'
LoopEndChange ==
    /\ initPosted
    /\ \E v \in SliderValues :
         LET endValue == IF v <= loopStartValue THEN SliderValue(loopStartValue + 1) ELSE v
         IN  /\ loopEndValue' = endValue
             /\ uiLast' = [op |-> "loopEnd",
                           reported |-> LoopReport(loopStartValue, endValue, loopEnabled),
                           duration |-> uiLast.duration]
    /\ UNCHANGED <<loopStartValue, loopEnabled, onLoopChange, totalTimeText>>
    /\ UNCHANGED <<workletVars, videoVars, renderVars, mainVars, auxVars>>

\* the user toggles the loop checkbox: handleLoopEnabledChange
LoopEnabledChange ==
    /\ initPosted
    /\ loopEnabled' = ~loopEnabled
    /\ uiLast' = [op |-> "loopEnabled",
                  reported |-> LoopReport(loopStartValue, loopEndValue, ~loopEnabled),
                  duration |-> uiLast.duration]
    /\ UNCHANGED <<loopStartValue, loopEndValue, onLoopChange, totalTimeText>>
    /\ UNCHANGED <<workletVars, videoVars, renderVars, mainVars, auxVars>>

NextTransport ==
    \/ InitAudioClick
    \/ ShowTotalDuration
    \/ LoopStartChange
    \/ LoopEndChange
    \/ LoopEnabledChange
    \/ HandleInit

\* the transport controls as main.js sets them up, and the port to the worklet
SpecTransport == Init /\ [][NextTransport]_vars

\* setupTransportControls as transport.js exports it, called on the
\* initialization click: the fifth argument is the loop callback, null when
\* the caller leaves it out
SetupTransportControls ==
    /\ ~initPosted
    /\ initPosted' = TRUE
    /\ port' = Append(port, [type |-> "init", seq |-> nextSeq])
    /\ nextSeq' = nextSeq + 1
    /\ \E loopCallback \in BOOLEAN : onLoopChange' = loopCallback
    /\ uiLast' = [op |-> "setup", reported |-> <<>>, duration |-> uiLast.duration]
    /\ UNCHANGED <<loopStartValue, loopEndValue, loopEnabled, totalTimeText>>
    /\ UNCHANGED <<engineVars, videoVars, renderVars, mainVars, auxVars>>

\* updateTotalDuration of transport.js: shows the duration and puts the loop
\* sliders back to their ends
UpdateTotalDuration ==
    /\ initPosted
    /\ \E d \in ShownDurations :
         /\ totalTimeText' = formatTime(d)
         /\ uiLast' = [op |-> "totalDuration", reported |-> <<>>, duration |-> d]
    /\ loopStartValue' = 0
    /\ loopEndValue' = MaxSlider
    /\ UNCHANGED <<loopEnabled, onLoopChange>>
    /\ UNCHANGED <<workletVars, videoVars, renderVars, mainVars, auxVars>>

NextLoop ==
    \/ SetupTransportControls
    \/ UpdateTotalDuration
    \/ LoopStartChange
    \/ LoopEndChange
    \/ LoopEnabledChange

\* the transport controls of transport.js under any caller
SpecLoop == Init /\ [][NextLoop]_vars

\* ------------------------------------------------------------- controller
\* the seconds one render block lasts, numerator over TimeDen
BlockTime == (BlockSize * TimeDen) \div DeviceRate

\* frames of the decoded file; decodeAudioData resamples to the context's rate
FileLength == FileBlocks * BlockSize

\* audioBuffer.duration, numerator over TimeDen
FileDuration == (FileLength * TimeDen) \div DeviceRate

\* values of the seek slider the user releases it at (min 0, max 100)
SeekPositions == {0, 50, 100}

\* (position / 100) * totalDuration
SeekTime(position) == (position * totalDuration) \div 100

\* samplerNode.port.postMessage from a handler of main.js
MainPost(c) ==
    /\ Len(port) < MaxQueue
    /\ nextSeq <= MaxCmds + 1
    /\ port' = Append(port, Stamp(c, nextSeq))
    /\ nextSeq' = nextSeq + 1

MainOp(name, arg) == [op |-> name, arg |-> arg]

\* handleAudioFileSelect: decode, keep the duration, show it, post loadSample
HandleAudioFileSelect ==
    /\ initPosted
    /\ audioBuffer' = TRUE
    /\ totalDuration' = FileDuration
    /\ totalTimeText' = formatTime(FileDuration)
    /\ MainPost([type |-> "loadSample", length |-> FileLength, sampleRate |-> DeviceRate])
    /\ mainLast' = MainOp("loadAudio", 0)
    /\ UNCHANGED <<mainIsPlaying, mainCurrentTime, animationFrameId, sinceLastTime,
                   mainVideoDecoder>>
    /\ uiLast' = [uiLast EXCEPT !.duration = FileDuration]
    /\ UNCHANGED <<loopStartValue, loopEndValue, loopEnabled, onLoopChange>>
    /\ UNCHANGED <<initPosted, engineVars, videoVars, renderVars, auxVars>>

\* handleVideoFileSelect: initVideoDecoder on the first file, then loadVideo
HandleVideoFileSelect ==
    /\ initPosted
    /\ mainVideoDecoder' = TRUE
    /\ hasElement' = TRUE
    /\ clearFrameBuffer
    /\ isDecoding' = FALSE
    /\ currentTime' = 0
    /\ videoTime' = 0
    /\ \E ok \in BOOLEAN : \E d \in VideoDurations :
         /\ duration' = IF ok THEN d ELSE 0
         /\ vLast' = VOp("loadVideo", 0, ok)
    /\ mainLast' = MainOp("loadVideo", 0)
    /\ UNCHANGED <<audioBuffer, mainIsPlaying, mainCurrentTime, totalDuration,
                   animationFrameId, sinceLastTime>>
    /\ UNCHANGED <<nextFrameId, maxTimeDifference, workletVars, renderVars, transportVars, auxVars>>

\* handlePlay of main.js, which ends in startAnimationLoop
MainPlay ==
    IF audioBuffer /\ ~mainIsPlaying
    THEN /\ mainIsPlaying' = TRUE
         /\ mainCurrentTime' = IF mainCurrentTime >= totalDuration THEN 0
                               ELSE mainCurrentTime
         /\ MainPost([type |-> "setPlaybackState", isPlaying |-> TRUE,
                      resetPosition |-> FALSE])
         /\ animationFrameId' = TRUE
         /\ sinceLastTime' = IF animationFrameId THEN sinceLastTime ELSE 0
    ELSE UNCHANGED <<mainIsPlaying, mainCurrentTime, animationFrameId, sinceLastTime,
                     port, nextSeq>>

\* handlePause of main.js, which ends in stopAnimationLoop
MainPause ==
    /\ IF mainIsPlaying
       THEN /\ mainIsPlaying' = FALSE
            /\ MainPost([type |-> "setPlaybackState", isPlaying |-> FALSE,
                         resetPosition |-> FALSE])
            /\ animationFrameId' = FALSE
            /\ sinceLastTime' = 0
       ELSE UNCHANGED <<mainIsPlaying, animationFrameId, sinceLastTime, port, nextSeq>>
    /\ UNCHANGED mainCurrentTime

\* handleStop of main.js
MainStop ==
    /\ mainIsPlaying' = FALSE
    /\ MainPost([type |-> "setPlaybackState", isPlaying |-> FALSE,
                 resetPosition |-> TRUE])
    /\ mainCurrentTime' = 0
    /\ animationFrameId' = FALSE
    /\ sinceLastTime' = 0

\* the Play button: handlePlay of transport.js calls handlePlay of main.js,
\* then disables Play and enables Pause and Stop; a disabled button takes no click
ClickPlay ==
    /\ initPosted
    /\ ~playBtnDisabled
    /\ mainLast' = MainOp("play", 0)
    /\ MainPlay
    /\ playBtnDisabled' = TRUE
    /\ pauseBtnDisabled' = FALSE
    /\ stopBtnDisabled' = FALSE
    /\ UNCHANGED <<audioBuffer, totalDuration, mainVideoDecoder>>
    /\ UNCHANGED <<initPosted, engineVars, videoVars, renderVars, transportVars>>
    /\ UNCHANGED <<captureVars, rendererVars, timerVars, keyVars>>

\* the Pause button: handlePause of transport.js calls handlePause of main.js,
\* then enables Play and disables Pause
ClickPause ==
    /\ initPosted
    /\ ~pauseBtnDisabled
    /\ mainLast' = MainOp("pause", 0)
    /\ MainPause
    /\ playBtnDisabled' = FALSE
    /\ pauseBtnDisabled' = TRUE
    /\ UNCHANGED <<audioBuffer, totalDuration, mainVideoDecoder, stopBtnDisabled>>
    /\ UNCHANGED <<initPosted, engineVars, videoVars, renderVars, transportVars>>
    /\ UNCHANGED <<captureVars, rendererVars, timerVars, keyVars>>

\* the Stop button: handleStop of transport.js calls handleStop of main.js,
\* then enables Play and disables Pause and Stop
ClickStop ==
    /\ initPosted
    /\ ~stopBtnDisabled
    /\ mainLast' = MainOp("stop", 0)
    /\ MainStop
    /\ playBtnDisabled' = FALSE
    /\ pauseBtnDisabled' = TRUE
    /\ stopBtnDisabled' = TRUE
    /\ UNCHANGED <<audioBuffer, totalDuration, mainVideoDecoder>>
    /\ UNCHANGED <<initPosted, engineVars, videoVars, renderVars, transportVars>>
    /\ UNCHANGED <<captureVars, rendererVars, timerVars, keyVars>>

\* the seek slider released: handleSeekChange of transport.js calls handleSeek
\* of main.js with the slider's value
SeekSliderChange ==
    /\ initPosted
    /\ \E position \in SeekPositions :
         /\ MainPost([type |-> "seek", time |-> SeekTime(position)])
         /\ mainCurrentTime' = SeekTime(position)
         /\ mainLast' = MainOp("seek", SeekTime(position))
    /\ UNCHANGED <<audioBuffer, mainIsPlaying, totalDuration, animationFrameId,
                   sinceLastTime, mainVideoDecoder>>
    /\ UNCHANGED <<initPosted, engineVars, videoVars, renderVars, transportVars, auxVars>>

\* updateUI, one animation frame of startAnimationLoop: the master time
\* advances by the audio clock's progress since the last frame; at the end of
\* the file handleStop runs, otherwise the video is synchronized to the time
UpdateUI ==
    /\ initPosted
    /\ animationFrameId
    /\ mainLast' = MainOp("updateUI", sinceLastTime)
    /\ IF ~mainIsPlaying
       THEN UNCHANGED <<mainIsPlaying, mainCurrentTime, animationFrameId, sinceLastTime,
                        port, nextSeq, videoVars>>
       ELSE LET time == Min(mainCurrentTime + sinceLastTime, totalDuration) IN
            IF time >= totalDuration
            THEN /\ MainStop
                 /\ UNCHANGED videoVars
            ELSE /\ mainCurrentTime' = time
                 /\ sinceLastTime' = 0
                 /\ UNCHANGED <<mainIsPlaying, animationFrameId, port, nextSeq>>
                 /\ IF mainVideoDecoder /\ hasElement
                       /\ NeedsResync(Abs(time - currentTime), maxTimeDifference)
                    THEN /\ seek(time)
                         /\ vLast' = VOp("sync", time, "seek")
                         /\ UNCHANGED <<hasElement, isDecoding, currentTime, duration,
                                        nextFrameId, maxTimeDifference>>
                    ELSE UNCHANGED videoVars
    /\ UNCHANGED <<audioBuffer, totalDuration, mainVideoDecoder>>
    /\ UNCHANGED <<initPosted, engineVars, renderVars, transportVars, auxVars>>

\* one render quantum while the page runs: process() renders a block and
\* audioContext.currentTime moves on by the block; the commands posted
\* before the quantum have been delivered
AudioProcess ==
    /\ port = <<>>
    /\ sinceLastTime < FileDuration
    /\ ProcessBlock
    /\ sinceLastTime' = IF animationFrameId THEN sinceLastTime + BlockTime ELSE 0
    /\ UNCHANGED <<audioBuffer, mainIsPlaying, mainCurrentTime, totalDuration,
                   animationFrameId, mainVideoDecoder, mainLast>>
    /\ UNCHANGED <<videoVars, renderVars, transportVars, auxVars>>

NextApp ==
    \/ InitAudioClick
    \/ HandleAudioFileSelect
    \/ HandleVideoFileSelect
    \/ ClickPlay
    \/ ClickPause
    \/ ClickStop
    \/ SeekSliderChange
    \/ UpdateUI
    \/ AudioProcess
    \/ HandleInit
    \/ HandleLoadSample
    \/ HandleSetPlaybackState
    \/ HandleSeek
    \/ HandleTimeUpdate

\* the page: the handlers of main.js, the worklet they post to and the video
\* decoder they synchronize
SpecApp == Init /\ [][NextApp]_vars

\* ---------------------------------------------------------------- keyboard
\* the keys main.js maps to the transport
Keys == {" ", "Escape"}

\* handleKeyboardEvent of main.js: the handler the key selects
KeyHandler(key) ==
    IF key = " " THEN (IF mainIsPlaying THEN "pause" ELSE "play") ELSE "stop"

\* handleKeyboardEvent(key): keyboard.js passes a second argument (true on
\* keydown, false on keyup) that the function does not take
HandleKeyboardEvent(key) ==
    /\ CASE KeyHandler(key) = "play" -> MainPlay
         [] KeyHandler(key) = "pause" -> MainPause
         [] OTHER -> MainStop
    /\ mainLast' = MainOp("key", 0)
    /\ UNCHANGED <<audioBuffer, totalDuration, mainVideoDecoder>>

\* handleKeyDown outside an input element: a key already marked down is
\* skipped, any other is marked down and handed to the callback
KeyDown ==
    /\ initPosted
    /\ \E key \in Keys :
         IF key \in keyStates
         THEN /\ keyLast' = [op |-> "repeat", key |-> key, called |-> "none"]
              /\ UNCHANGED <<keyStates, mainVars, port, nextSeq>>
         ELSE /\ keyStates' = keyStates \cup {key}
              /\ keyLast' = [op |-> "keydown", key |-> key, called |-> KeyHandler(key)]
              /\ HandleKeyboardEvent(key)
    /\ UNCHANGED <<initPosted, engineVars, videoVars, renderVars, transportVars>>
    /\ UNCHANGED <<captureVars, rendererVars, timerVars, buttonVars>>

\* handleKeyUp: the key is marked up and handed to the callback
KeyUp ==
    /\ initPosted
    /\ \E key \in keyStates :
         /\ keyStates' = keyStates \ {key}
         /\ keyLast' = [op |-> "keyup", key |-> key, called |-> KeyHandler(key)]
         /\ HandleKeyboardEvent(key)
    /\ UNCHANGED <<initPosted, engineVars, videoVars, renderVars, transportVars>>
    /\ UNCHANGED <<captureVars, rendererVars, timerVars, buttonVars>>

NextKeys ==
    \/ NextApp
    \/ KeyDown
    \/ KeyUp

\* the page with the keyboard shortcuts of keyboard.js
SpecKeys == Init /\ [][NextKeys]_vars

\* ----------------------------------------------------------------- claims
AllZero(outs) ==
    \A c \in 1..Len(outs) : \A i \in 1..Len(outs[c]) : outs[c][i] = 0

\* the playback position, and a sample count, as numerators over DeviceRate
Samples(n) == n * DeviceRate

\* C1: a render step that starts with the engine not Playing (not initialised,
\* no sample loaded, paused or stopped) leaves every sample of every output
\* channel of the block at 0.
C1_SilentWhenNotPlaying ==
    (lastOp.op = "process" /\ ~lastOp.playing) =>
        /\ Len(outputs) = 2
        /\ \A c \in 1..2 : Len(outputs[c]) = BlockSize
        /\ AllZero(outputs)

\* a block rendered while a non-empty sample is loaded and the transport is
\* not playing, after an earlier block has played
C1_Witness ==
    /\ lastOp.op = "process" /\ ~lastOp.playing
    /\ initialized /\ HasBuffer /\ BufferLength > 0 /\ ~lastOp.isPlaying
    /\ AllZero(outputs)

\* C2: once a sample of length L > 0 is loaded the playback position p
\* satisfies 0 <= p < L in every state.
C2_PositionInRange ==
    (initialized /\ HasBuffer /\ BufferLength > 0) =>
        (0 <= playbackPosition /\ playbackPosition < Samples(BufferLength))

\* C3: when the end of the sample buffer is reached inside a render block, the
\* transport leaves Playing, every output sample from that frame to the end of
\* the block is 0 and the position is not advanced after it.
C3_SilentAfterEnd ==
    (lastOp.op = "process" /\ stoppedAt # 0) =>
        /\ ~isPlaying
        /\ \A c \in 1..2 : \A i \in stoppedAt..BlockSize : outputs[c][i] = 0
        /\ playbackPosition = 0

\* C4: a pause, setPlaybackState(false) without resetPosition, leaves the
\* playback position unchanged.
C4_PauseKeepsPosition ==
    (/\ lastOp.op = "setPlaybackState"
     /\ ~lastOp.cmd.isPlaying
     /\ ~lastOp.cmd.resetPosition) => playbackPosition = lastOp.position

\* C5: after every successful loadSample (a non-empty buffer at a positive
\* rate), from any prior state, the playback position is 0 and the transport is
\* not Playing (the worklet keeps no loop region it could leave enabled).
C5_LoadResets ==
    (/\ lastOp.op = "loadSample"
     /\ lastOp.cmd.length > 0
     /\ lastOp.cmd.sampleRate > 0) => (playbackPosition = 0 /\ ~isPlaying)

\* C6: a loadSample whose buffer is empty or whose sample rate is <= 0 is
\* rejected: buffer, rate and position stay as they were, an error event is
\* posted and no sampleLoaded event is.
C6_InvalidLoadRejected ==
    [][ (/\ port # <<>>
         /\ Head(port).type = "loadSample"
         /\ port' = Tail(port)
         /\ (Head(port).length = 0 \/ Head(port).sampleRate <= 0))
        => (/\ sampleBuffer' = sampleBuffer
            /\ sampleRate' = sampleRate
            /\ playbackPosition' = playbackPosition
            /\ \E i \in 1..Len(portOut') : portOut'[i].type = "error"
            /\ \A i \in 1..Len(portOut') : portOut'[i].type # "sampleLoaded") ]_vars

\* the sample index of a time, clamped into 0 .. length - 1
ClampedIndexOf(time, rate, length) ==
    LET index == (time * rate) \div TimeDen
    IN  IF index < 0 THEN 0 ELSE IF index >= length THEN length - 1 ELSE index

\* C7: after seek(t) on a loaded sample of length L > 0 at rate r the position
\* is the sample index of t clamped into the valid range, so 0 <= position < L,
\* for t negative, inside or beyond the end of the sample.
C7_SeekClamps ==
    (lastOp.op = "seek" /\ HasBuffer /\ BufferLength > 0) =>
        /\ playbackPosition =
             Samples(ClampedIndexOf(lastOp.cmd.time, sampleRate, BufferLength))
        /\ 0 <= playbackPosition
        /\ playbackPosition < Samples(BufferLength)

\* a seek beyond the end of a sample of two frames or more, which lands on the
\* last frame
C7_Witness ==
    /\ lastOp.op = "seek" /\ HasBuffer /\ BufferLength >= 2 /\ sampleRate > 0
    /\ (lastOp.cmd.time * sampleRate) \div TimeDen >= BufferLength
    /\ playbackPosition = Samples(BufferLength - 1)

\* C8: with the loop enabled on [S, E) and the transport Playing, the position
\* never exceeds E (E seconds are E * sampleRate frames).
C8_LoopBounded ==
    (loopPoints.enabled /\ Playing /\ sampleRate > 0) =>
        playbackPosition * TimeDen <= Samples(loopPoints.end * sampleRate)

\* C9: a render block that starts Playing, with no loop, leaves the position
\* strictly greater than before it and not beyond sampleLength. Stated for a
\* non-empty sample at a positive rate and for the blocks in which the end of
\* the sample is not detected, where the claim leaves no doubt.
C9_PositionIncreases ==
    (/\ lastOp.op = "process" /\ lastOp.playing /\ ~loopPoints.enabled
     /\ BufferLength > 0 /\ sampleRate > 0 /\ stoppedAt = 0) =>
        /\ playbackPosition > lastOp.position
        /\ playbackPosition <= Samples(BufferLength)

\* the serial numbers of the commands on the port, in order
InFlight == [i \in 1..Len(port) |-> port[i].seq]

\* C10: every command the controller posts is handled exactly once and in
\* posting order, and none is discarded unprocessed: the commands handled,
\* followed by those still on the port, are the commands posted, in order.
C10_OrderedLossless ==
    /\ handled \o InFlight = [i \in 1..(nextSeq - 1) |-> i]
    /\ discarded = {}

\* two commands have been handled after init while two more are in flight
C10_Witness ==
    /\ Len(handled) >= 2
    /\ Len(port) >= 2
    /\ lastOp.op \notin {"none", "init", "process"}

\* the types of the events the worklet posted during its last step
EventTypes == [i \in 1..Len(portOut) |-> portOut[i].type]

C12_KeepAlive ==
    lastOp.op = "process" => keepAlive = <<TRUE>>

\* a block whose try block threw while the transport was Playing, after one
\* frame had been written
C12_Witness ==
    /\ lastOp.op = "process" /\ lastOp.playing
    /\ failedAt >= 2
    /\ keepAlive = <<TRUE>>

\* C13: when the render step fails part-way through a block, the block
\* delivered is all zeros and exactly one error event is posted for the fault.
C13_FailedBlockSilentWithError ==
    (lastOp.op = "process" /\ failedAt # 0) =>
        /\ AllZero(outputs)
        /\ Len(portOut) = 1
        /\ EventTypes[1] = "error"

\* C14: the frame buffer never holds more than maxBufferSize frames, after
\* any sequence of pushes, seeks, resets and clears.
C14_BufferBounded == Len(frameBuffer) <= maxBufferSize

\* a frame has been pushed onto a full buffer
C14_Witness ==
    /\ vLast.op = "push"
    /\ Len(vLast.buffer) = maxBufferSize
    /\ Len(frameBuffer) = maxBufferSize

\* C15: a push onto a full buffer removes exactly the oldest frame, the other
\* frames stay in their order with the pushed frame as the newest; a push onto
\* a buffer that is not full removes nothing.
C15_PushEvictsOldest ==
    vLast.op = "push" =>
        IF Len(vLast.buffer) >= maxBufferSize
        THEN /\ vLast.ret = << Head(vLast.buffer) >>
             /\ frameBuffer = Append(Tail(vLast.buffer), vLast.arg)
        ELSE /\ vLast.ret = <<>>
             /\ frameBuffer = Append(vLast.buffer, vLast.arg)

\* a push onto a full buffer of two frames or more has removed its oldest frame
C15_Witness ==
    /\ vLast.op = "push"
    /\ Len(vLast.buffer) = maxBufferSize
    /\ Len(vLast.buffer) >= 2
    /\ vLast.ret = << vLast.buffer[1] >>
    /\ frameBuffer[1] = vLast.buffer[2]

\* the distance, in microseconds, of the i-th frame the query saw from time t
DistanceAt(i, t) == Abs(vLast.buffer[i].timestamp - t * 1000000)

\* C16: getFrameAtTime(t) on a non-empty buffer returns a frame of the buffer
\* whose timestamp is nearest to t, the earliest inserted one when several are
\* equally near, and leaves the buffer as it was.
C16_ClosestFrame ==
    (vLast.op = "getFrameAtTime" /\ vLast.buffer # <<>>) =>
        /\ \E k \in 1..Len(vLast.buffer) :
             /\ vLast.ret = vLast.buffer[k]
             /\ \A j \in 1..Len(vLast.buffer) :
                  DistanceAt(k, vLast.arg) <= DistanceAt(j, vLast.arg)
             /\ \A j \in 1..(k - 1) :
                  DistanceAt(k, vLast.arg) < DistanceAt(j, vLast.arg)
        /\ frameBuffer = vLast.buffer

\* a query two frames of different timestamps are equally near to, answered
\* with the one inserted first
C16_Witness ==
    /\ vLast.op = "getFrameAtTime"
    /\ Len(vLast.buffer) >= 2
    /\ vLast.ret = vLast.buffer[1]
    /\ vLast.buffer[2].timestamp # vLast.buffer[1].timestamp
    /\ DistanceAt(2, vLast.arg) = DistanceAt(1, vLast.arg)

\* C17: after clearFrameBuffer, so after every seek of the decoder, every
\* reload and cleanup, the buffer is empty; while it is empty getFrameAtTime
\* returns null for every time, and it returns null only then.
C17_ClearedMeansNull ==
    /\ (vLast.op \in {"seek", "loadVideo", "cleanup"}) => frameBuffer = <<>>
    /\ (vLast.op = "sync" /\ vLast.ret = "seek") => frameBuffer = <<>>
    /\ \A t \in AudioTimes : (getFrameAtTime(t) = NullFrame) <=> (frameBuffer = <<>>)
    /\ vLast.op = "getFrameAtTime" =>
          ((vLast.ret = NullFrame) <=> (vLast.buffer = <<>>))

\* a seek has emptied a buffer that held frames
C17_Witness ==
    /\ vLast.op = "seek"
    /\ vLast.buffer # <<>>
    /\ frameBuffer = <<>>
    /\ getFrameAtTime(vLast.arg) = NullFrame

\* the frame ids in the buffer
Buffered == { frameBuffer[i].id : i \in 1..Len(frameBuffer) }

\* C18: every frame that has left the buffer (evicted, cleared, seeked away,
\* reset or cleaned up) has been closed exactly once, and no frame still in
\* the buffer has been closed.
C18_ClosedExactlyOnce ==
    /\ \A id \in 1..(nextFrameId - 1) :
          closeCount[id] = IF id \in Buffered THEN 0 ELSE 1
    /\ Cardinality(Buffered) = Len(frameBuffer)

\* one frame has left by eviction, another by a clear, and a frame is buffered
C18_Witness ==
    /\ vLast.op = "push"
    /\ vLast.ret # <<>>
    /\ closeCount[vLast.ret[1].id] = 1
    /\ \E id \in 1..(vLast.ret[1].id - 1) : closeCount[id] = 1
    /\ frameBuffer # <<>>

\* C19: a sync check seeks the decoder to the audio time iff
\* |audioTime - videoTime| > maxTimeDifference; at a difference of at most
\* maxTimeDifference (equality included) it issues no seek and leaves the
\* decoder position and the frame buffer untouched.
C19_ResyncIffBeyondTolerance ==
    (vLast.op = "sync" /\ hasElement) =>
        /\ (vLast.ret = "seek") <=> (Abs(vLast.arg - vLast.currentTime) > maxTimeDifference)
        /\ vLast.ret = "seek" =>
              (videoTime = Max(0, Min(vLast.arg, duration)) /\ frameBuffer = <<>>)
        /\ vLast.ret # "seek" =>
              /\ vLast.ret = "none"
              /\ videoTime = vLast.videoTime
              /\ currentTime = vLast.currentTime
              /\ frameBuffer = vLast.buffer

\* a sync check at a difference equal to the tolerance, with frames buffered
C19_Witness ==
    /\ vLast.op = "sync" /\ hasElement
    /\ Abs(vLast.arg - vLast.currentTime) = maxTimeDifference
    /\ vLast.ret = "none"
    /\ frameBuffer # <<>>

\* C20: for an audio time a, a video time v and maxTimeDifference m > 0 the
\* metrics are inSync = (|a - v| <= m) and syncQuality = max(0, 100 -
\* 100 |a - v| / m) (the numerator over m is compared), so the quality lies in
\* [0, 100], is 0 whenever inSync is false, and inSync is false exactly when
\* the sync check on the same inputs resyncs.
C20_Metrics ==
    (vLast.op = "metrics" /\ hasElement /\ maxTimeDifference > 0) =>
        LET d == Abs(vLast.arg - currentTime)
            m == maxTimeDifference
        IN  /\ vLast.ret.inSync = (d <= m)
            /\ vLast.ret.tolerance = m
            /\ vLast.ret.quality = (IF 100 * m - 100 * d > 0 THEN 100 * m - 100 * d ELSE 0)
            /\ 0 <= vLast.ret.quality /\ vLast.ret.quality <= 100 * m
            /\ ~vLast.ret.inSync => vLast.ret.quality = 0
            /\ ~vLast.ret.inSync <=> NeedsResync(d, m)

\* metrics at a difference equal to the tolerance: in sync, with quality 0
C20_Witness ==
    /\ vLast.op = "metrics" /\ hasElement
    /\ Abs(vLast.arg - currentTime) = maxTimeDifference
    /\ vLast.ret.inSync
    /\ vLast.ret.quality = 0

\* C21: renderFrameForTime hands the selected frame to the renderer iff its
\* timestamp differs from that of the last frame it rendered; afterwards the
\* selected frame's time is the last rendered one, so a further tick that
\* selects the same frame renders nothing.
C21_RenderIffNewTimestamp ==
    (vLast.op = "renderFrameForTime" /\ vLast.ret.frame # NullFrame) =>
        /\ vLast.ret.rendered <=>
              (vLast.ret.frame.timestamp # vLast.lastRendered * 1000000)
        /\ lastRenderedFrameTime * 1000000 = vLast.ret.frame.timestamp

\* a tick that selected the frame rendered last and rendered nothing
C21_Witness ==
    /\ vLast.op = "renderFrameForTime"
    /\ vLast.ret.frame # NullFrame
    /\ ~vLast.ret.rendered
    /\ vLast.lastRendered * 1000000 = vLast.ret.frame.timestamp

\* C22: when the video element reports an error the frame buffer is cleared,
\* and a sync check that follows the error issues no seek.
C22_ErrorClearsAndSuspends ==
    [][ /\ (vLast'.op = "error" /\ vLast' # vLast) => frameBuffer' = <<>>
        /\ (vLast.op = "error" /\ vLast'.op = "sync") => vLast'.ret # "seek" ]_vars

\* C23: the frame selected for presentation at audio time t is the buffered
\* frame with the latest timestamp not after t; a frame whose timestamp is
\* later than t is never selected.
C23_LatestNotAfter ==
    (vLast.op = "renderFrameForTime" /\ vLast.ret.frame # NullFrame) =>
        /\ vLast.ret.frame.timestamp <= vLast.arg * 1000000
        /\ \A i \in 1..Len(vLast.buffer) :
             vLast.buffer[i].timestamp <= vLast.arg * 1000000
                => vLast.buffer[i].timestamp <= vLast.ret.frame.timestamp

\* C24: after a stop, setPlaybackState(isPlaying = false, resetPosition =
\* true), from any prior state, the transport is not Playing and the playback
\* position is 0.
C24_StopResets ==
    (/\ lastOp.op = "setPlaybackState"
     /\ ~lastOp.cmd.isPlaying
     /\ lastOp.cmd.resetPosition) => (~Playing /\ ~isPlaying /\ playbackPosition = 0)

\* a stop handled while the transport was Playing past the start of the sample
C24_Witness ==
    /\ lastOp.op = "setPlaybackState"
    /\ ~lastOp.cmd.isPlaying /\ lastOp.cmd.resetPosition
    /\ lastOp.playing /\ lastOp.position > 0
    /\ playbackPosition = 0 /\ ~isPlaying

\* C25: a release received at envelope level L starts a ramp from L down to
\* 0 (and a trigger a ramp up from L), so the frames rendered after a release
\* are scaled by a level below the one before it: in the block that follows a
\* handled releaseEnvelope some frame is quieter than the sample it plays.
C25_ReleaseRampsDown ==
    [][ (/\ lastOp.op = "releaseEnvelope"
         /\ lastOp.cmd.seq \notin discarded
         /\ Playing /\ sampleRate > 0
         /\ lastOp'.op = "process"
         /\ stoppedAt' = 0)
        => \E i \in 1..BlockSize :
              Abs(outputs'[1][i]) <
                Abs(Buffer[Floor(playbackPosition + (i - 1) * sampleRate) + 1]) ]_vars

\* the declared range of an effect parameter, in hundredths
ParameterRange(effectType, paramName) ==
    IF paramName = "feedback" THEN [lo |-> 0, hi |-> 99] ELSE [lo |-> 0, hi |-> 100]

\* C26: after a setEffectParameter command with value v the effect unit holds
\* v clamped into the parameter's declared range (delay feedback in
\* [0, 0.99], mixes in [0, 1]): the value is not rejected and not stored
\* unclamped.
C26_EffectValueClamped ==
    (lastOp.op = "setEffectParameter" /\ lastOp.cmd.seq \notin discarded) =>
        LET range == ParameterRange(lastOp.cmd.effectType, lastOp.cmd.paramName)
            held == EffectParameterHeld(lastOp.cmd.effectType, lastOp.cmd.paramName)
        IN  /\ held.held
            /\ held.value = Max(range.lo, Min(lastOp.cmd.value, range.hi))

\* a step that changes the loop start, the loop end or the loop checkbox
LoopControlsChanged ==
    <<loopStartValue, loopEndValue, loopEnabled>>' # <<loopStartValue, loopEndValue, loopEnabled>>

\* C28: every step in which the user changes the loop start, the loop end or
\* the loop checkbox posts one setLoopPoints command to the worklet that
\* carries the enabled flag of the controls.
C28_LoopChangeSendsSetLoopPoints ==
    [][ LoopControlsChanged =>
          /\ Len(port') = Len(port) + 1
          /\ port'[Len(port')].type = "setLoopPoints"
          /\ port'[Len(port')].enabled = loopEnabled' ]_vars

\* C29: after every seek by the user, playing or paused, the video frame
\* buffer is empty, every frame it held is closed, and the video element's
\* position is the seek target (clamped into the video).
C29_SeekMovesVideo ==
    (mainLast.op = "seek" /\ mainVideoDecoder) =>
        /\ frameBuffer = <<>>
        /\ \A id \in DOMAIN closeCount : id < nextFrameId => closeCount[id] >= 1
        /\ videoTime = Max(0, Min(mainLast.arg, duration))

\* the distance between main.js's currentTime and the engine's playback
\* position in seconds, scaled by DeviceRate * sampleRate * TimeDen
MasterDistance ==
    Abs(mainCurrentTime * DeviceRate * sampleRate - playbackPosition * TimeDen)

\* C30: once every posted command is delivered, main.js's isPlaying equals the
\* engine's playing state unless the engine has just run out of samples, and
\* whenever the two agree main.js's currentTime is within one block, plus the
\* audio time not yet added by an animation frame, of the engine's position.
C30_MasterTimeTracksEngine ==
    (port = <<>> /\ initialized /\ audioBuffer /\ HasBuffer /\ sampleRate # 0) =>
        /\ isPlaying => mainIsPlaying
        /\ (mainIsPlaying <=> isPlaying) =>
              MasterDistance <= (BlockTime + sinceLastTime) * DeviceRate * sampleRate

\* C31: an engine that is Playing a sample loaded at a positive rate leaves
\* Playing after finitely many render blocks, unless a command replaces the
\* sample by one with a rate that is not positive; and an engine that is not
\* playing starts playing only by a setPlaybackState command.
C31_PlayingEnds ==
    /\ (Playing /\ sampleRate > 0) ~> (~Playing \/ sampleRate <= 0)
    /\ [][ (~isPlaying /\ isPlaying') => lastOp'.op = "setPlaybackState" ]_playVars

\* a block in which a sample playing at a positive rate ran out
C31_Witness ==
    /\ lastOp.op = "process"
    /\ lastOp.playing
    /\ sampleRate > 0
    /\ stoppedAt > 0
    /\ ~isPlaying

\* C32: after a sync check has seeked the video to the audio time t, the
\* position the video element arrives at is within maxTimeDifference of t, so
\* that the next sync check at t, once the position is reported, seeks no more.
C32_ResyncConverges ==
    (vLast.op = "sync" /\ vLast.ret = "seek") =>
        ~NeedsResync(Abs(vLast.arg - videoTime), maxTimeDifference)

\* C33: at most one captureFrame callback is requested at any time, an
\* animation frame pushes at most one frame, and frames are pushed only while
\* isDecoding is set.
C33_OneCaptureLoop ==
    /\ captureLoops <= 1
    /\ captureLast.op = "frame" => captureLast.pushed <= 1
    /\ captureLast.pushed > 0 => captureLast.decoding

\* C34: no frame passed to renderer.render has had close() called on it.
C34_NeverDrawsClosedFrame == ~rendered.closed

\* C35: at most one sync interval is set and not cleared, it is the one
\* syncIntervalId names, and none is left once syncIntervalId is null.
C35_OneSyncTimer ==
    /\ Cardinality(activeTimers) <= 1
    /\ activeTimers \subseteq {syncIntervalId}
    /\ syncIntervalId = 0 => activeTimers = {}

\* startContinuousSync called while an interval was running
C35_Witness ==
    /\ nextTimerId > 2
    /\ syncIntervalId = nextTimerId - 1
    /\ (syncIntervalId - 1) \notin activeTimers
    /\ vLast.op = "sync"

\* C36: a key-down of the space bar or of Escape calls one transport handler
\* (play or pause by the playing state, stop for Escape); a key-up and an
\* auto-repeated key-down call none.
C36_KeyPressActsOnce ==
    /\ keyLast.op \in {"keyup", "repeat"} => keyLast.called = "none"
    /\ keyLast.op = "keydown" => keyLast.called # "none"

\* C38: the Play button is disabled exactly when main.js's isPlaying is true.
C38_PlayButtonReflectsPlaying == playBtnDisabled <=> mainIsPlaying

\* C37: every loop change handed to onLoopChange has 0 <= start < end < duration,
\* the duration being the one last shown by the transport controls.
C37_ReportedLoopInsideDuration ==
    \A i \in 1..Len(uiLast.reported) :
        LET r == uiLast.reported[i]
        IN  /\ 0 <= r.startTime
            /\ r.startTime < r.endTime
            /\ r.endTime * TimeDen < uiLast.duration * MaxSlider

====
